---- MODULE Spec2Model ----
(***************************************************************************)
(* A model of the FAT32 analyser: the boot-sector decoder and FAT reader   *)
(* (src/parser/fat32_parser.py), the directory-slot decoder                *)
(* (src/parser/directory_entry.py) and the walker, extent encoder,         *)
(* allocation bitmap, free runs and statistics (src/analysis/analyser.py). *)
(*                                                                         *)
(* Every function of the analyser has a specification of its own, whose    *)
(* initial states draw the function's input from a bounded set and whose   *)
(* actions apply it; the variables of the other functions stay idle.       *)
(***************************************************************************)
EXTENDS Integers, Sequences, FiniteSets, TLC

VARIABLES
    te_pc, te_chain, te_extents,     \* to_extents: position, argument, result
    fe_pc, fe_bitmap, fe_out,        \* free_extents: position, argument, result
    file_handle, boot_sector,        \* FAT32Parser.file_handle, .boot_sector
    boot_data, pb_pc,                \* parse_boot_sector: the image's first
                                     \* bytes, position
    fat,                             \* the image's first FAT copy
    cluster_chain_cache,             \* FAT32Analyzer._cluster_chain_cache
    gc_pc, gc_start, gc_chain,       \* get_chain: position, argument, the
                                     \* chain followed so far or returned
    dp_pc, dp_cluster_data, dp_entries,
                                     \* parse_directory_entries: position,
                                     \* argument, result
    disk,                            \* the image's data clusters
    dir_bytes_cache,                 \* FAT32Analyzer._dir_bytes_cache
    wk_pc, wk_stack, wk_out,         \* walk: position, the frames of
                                     \* _walk_dir, the records appended
    wk_descended, wk_entry_paths,    \* history: the clusters _walk_dir was
                                     \* called on, the paths of the entries
                                     \* that were not skipped
    wk_origin,                       \* history: for each record appended, the
                                     \* call of _walk_dir and the entry it
                                     \* was appended for
    an_report,                       \* analyze: the report returned
    bm_pc, bm_records, bm_bitmap,    \* build_allocation_bitmap: position,
                                     \* argument, result
    st_pc, st_records, st_free_runs, st_stats
                                     \* stats: position, arguments, result

teVars == <<te_pc, te_chain, te_extents>>
feVars == <<fe_pc, fe_bitmap, fe_out>>
wkVars == <<disk, dir_bytes_cache, wk_pc, wk_stack, wk_out, wk_descended,
           wk_entry_paths, wk_origin, an_report>>
bmVars == <<bm_pc, bm_records, bm_bitmap>>
stVars == <<st_pc, st_records, st_free_runs, st_stats>>

pbVars == <<file_handle, boot_data, pb_pc>>
gcVars == <<gc_pc, gc_start, gc_chain>>
dpVars == <<dp_pc, dp_cluster_data, dp_entries>>

vars == <<teVars, feVars, boot_sector, pbVars, fat, cluster_chain_cache, gcVars,
          dpVars, wkVars, bmVars, stVars>>

\* What the actions of each function leave alone.
teRest == <<feVars, boot_sector, pbVars, fat, cluster_chain_cache, gcVars,
            dpVars, wkVars, bmVars, stVars>>
feRest == <<teVars, boot_sector, pbVars, fat, cluster_chain_cache, gcVars,
            dpVars, wkVars, bmVars, stVars>>
pbRest == <<teVars, feVars, fat, cluster_chain_cache, gcVars, dpVars, wkVars,
            bmVars, stVars>>
gcRest == <<teVars, feVars, pbVars, dpVars, wkVars, bmVars, stVars>>
dpRest == <<teVars, feVars, boot_sector, pbVars, fat, cluster_chain_cache,
            gcVars, wkVars, bmVars, stVars>>
wkRest == <<teVars, feVars, pbVars, gcVars, dpVars, bmVars, stVars>>
bmRest == <<teVars, feVars, pbVars, fat, cluster_chain_cache, gcVars, dpVars,
            wkVars, stVars>>
stRest == <<teVars, feVars, pbVars, fat, cluster_chain_cache, gcVars, dpVars,
            wkVars, bmVars>>

(***************************************************************************)
(* Helpers on sequences.                                                   *)
(***************************************************************************)
\* All sequences over S of length at most n.
SeqsUpTo(S, n) == UNION {[1..k -> S] : k \in 0..n}

RECURSIVE SumSeq(_)
SumSeq(s) == IF s = <<>> THEN 0 ELSE Head(s) + SumSeq(Tail(s))

Range(s) == {s[k] : k \in 1..Len(s)}

NoDuplicates(s) == \A a, b \in 1..Len(s) : a # b => s[a] # s[b]

(***************************************************************************)
(* to_extents (analyser.py 22-35).                                         *)
(***************************************************************************)
\* Bounds of the chains handed to to_extents.
MaxChainLen == 3
MaxChainCluster == 4

ChainInputs == SeqsUpTo(0..MaxChainCluster, MaxChainLen)

\* Mutants of the run test of line 29.
is_run_ge(prev, cur) == cur >= prev + 1
is_run_same(prev, cur) == cur = prev

\* Line 29: the pair (prev, cur) continues the current run.
is_run(prev, cur) == cur = prev + 1

\* Lines 28-34: the loop over zip(chain, chain[1:]), at pair k, and the final
\* append.
RECURSIVE to_extents_loop(_, _, _, _, _)
to_extents_loop(chain, k, start, length, extents) ==
    IF k >= Len(chain)
    THEN Append(extents, <<start, length>>)
    ELSE IF is_run(chain[k], chain[k + 1])
         THEN to_extents_loop(chain, k + 1, start, length + 1, extents)
         ELSE to_extents_loop(chain, k + 1, chain[k + 1], 1,
                              Append(extents, <<start, length>>))

to_extents(chain) ==
    IF chain = <<>> THEN <<>>
    ELSE to_extents_loop(chain, 1, chain[1], 1, <<>>)

TeIdle == te_pc = "idle" /\ te_chain = <<>> /\ te_extents = <<>>

TeInit == te_pc = "call" /\ te_chain \in ChainInputs /\ te_extents = <<>>

ToExtents ==
    /\ te_pc = "call"
    /\ te_extents' = to_extents(te_chain)
    /\ te_pc' = "done"
    /\ UNCHANGED te_chain
    /\ UNCHANGED teRest

\* The expansion of extents: each (s, l) becomes s, s+1, ..., s+l-1.
ExpandExtent(e) == [k \in 1..e[2] |-> e[1] + k - 1]

RECURSIVE Expand(_)
Expand(extents) ==
    IF extents = <<>> THEN <<>>
    ELSE ExpandExtent(Head(extents)) \o Expand(Tail(extents))

ExtentLengths(extents) == [k \in 1..Len(extents) |-> extents[k][2]]

\* The places of a chain where the next cluster is not the previous one + 1.
Breaks(chain) == {k \in 1..(Len(chain) - 1) : chain[k + 1] # chain[k] + 1}

NonContiguous(extents) ==
    \A k \in 1..(Len(extents) - 1) :
        extents[k + 1][1] # extents[k][1] + extents[k][2]

\* C5: extent round trip. For every chain, expanding the extents of
\* to_extents(chain) in order gives the chain back; every extent length is at
\* least 1 and the lengths sum to the length of the chain.
C5_RoundTrip ==
    te_pc = "done" =>
        /\ Expand(te_extents) = te_chain
        /\ \A k \in 1..Len(te_extents) : te_extents[k][2] >= 1
        /\ SumSeq(ExtentLengths(te_extents)) = Len(te_chain)

\* A chain with a repeated cluster number and a run of two, encoded.
C5_Witness ==
    /\ te_pc = "done"
    /\ ~NoDuplicates(te_chain)
    /\ \E k \in 1..Len(te_extents) : te_extents[k][2] = 2

\* C6 as stated: for every chain, adjacent extents are never contiguous and
\* the number of extents is the number of breaks of the chain plus one.
C6_Original ==
    te_pc = "done" =>
        /\ NonContiguous(te_extents)
        /\ Len(te_extents) = Cardinality(Breaks(te_chain)) + 1

\* C6 amended: for every chain, adjacent extents are never contiguous; the
\* number of extents is the number of breaks plus one for a non-empty chain
\* and zero for the empty chain.
C6_NonContiguity ==
    te_pc = "done" =>
        /\ NonContiguous(te_extents)
        /\ te_chain # <<>> =>
               Len(te_extents) = Cardinality(Breaks(te_chain)) + 1
        /\ te_chain = <<>> => Len(te_extents) = 0

\* A chain with a break following a run of two, encoded as two extents.
C6_Witness ==
    /\ te_pc = "done"
    /\ Len(te_extents) = 2
    /\ te_extents[1][2] = 2

(***************************************************************************)
(* free_extents (analyser.py 129-141).                                     *)
(***************************************************************************)
\* Bound of the bitmaps handed to free_extents.
MaxBits == 6

BitmapInputs == SeqsUpTo({0, 1}, MaxBits)

\* bitmap[i] of the code, whose lists count from 0.
Bit(bitmap, i) == bitmap[i + 1]

\* Lines 134-136: the end j of the run of zero bits that starts at i.
RECURSIVE free_run_end(_, _)
free_run_end(bitmap, j) ==
    IF j < Len(bitmap) /\ Bit(bitmap, j) = 0
    THEN free_run_end(bitmap, j + 1)
    ELSE j

\* Mutant of the run appended at line 137.
free_run_long(i, j) == <<i + 2, j - i + 1>>

\* Line 137: the run appended for the zero bits i .. j-1.
free_run(i, j) == <<i + 2, j - i>>

\* Lines 132-140: the scan from index i.
RECURSIVE free_extents_loop(_, _, _)
free_extents_loop(bitmap, i, out) ==
    IF i >= Len(bitmap)
    THEN out
    ELSE IF Bit(bitmap, i) = 0
         THEN LET j == free_run_end(bitmap, i)
              IN  free_extents_loop(bitmap, j, Append(out, free_run(i, j)))
         ELSE free_extents_loop(bitmap, i + 1, out)

free_extents(bitmap) == free_extents_loop(bitmap, 0, <<>>)

FeIdle == fe_pc = "idle" /\ fe_bitmap = <<>> /\ fe_out = <<>>

FeInit == fe_pc = "call" /\ fe_bitmap \in BitmapInputs /\ fe_out = <<>>

FreeExtents ==
    /\ fe_pc = "call"
    /\ fe_out' = free_extents(fe_bitmap)
    /\ fe_pc' = "done"
    /\ UNCHANGED fe_bitmap
    /\ UNCHANGED feRest

\* The bitmap indices a run (start, length) covers.
RunIndices(run) == (run[1] - 2)..(run[1] - 2 + run[2] - 1)

ZeroIndices(bitmap) == {i \in 0..(Len(bitmap) - 1) : Bit(bitmap, i) = 0}

PopCount(bitmap) == Cardinality({i \in 0..(Len(bitmap) - 1) : Bit(bitmap, i) = 1})

\* A run of zero bits that no zero bit borders.
MaximalZeroRun(bitmap, run) ==
    /\ run[2] >= 1
    /\ RunIndices(run) \subseteq ZeroIndices(bitmap)
    /\ (run[1] - 3) \notin ZeroIndices(bitmap)
    /\ (run[1] - 2 + run[2]) \notin ZeroIndices(bitmap)

\* C7: free-run partition. For every bitmap the runs of free_extents are in
\* strictly ascending start order, each a maximal run of zero bits given as
\* (index + 2, length), pairwise disjoint and covering exactly the zero bits,
\* so that the run lengths and the one bits add up to the bitmap's length.
C7_FreeRunPartition ==
    fe_pc = "done" =>
        /\ \A k \in 1..(Len(fe_out) - 1) : fe_out[k][1] < fe_out[k + 1][1]
        /\ \A k \in 1..Len(fe_out) : MaximalZeroRun(fe_bitmap, fe_out[k])
        /\ \A a, b \in 1..Len(fe_out) :
               a # b => RunIndices(fe_out[a]) \cap RunIndices(fe_out[b]) = {}
        /\ UNION {RunIndices(fe_out[k]) : k \in 1..Len(fe_out)}
               = ZeroIndices(fe_bitmap)
        /\ SumSeq(ExtentLengths(fe_out)) + PopCount(fe_bitmap) = Len(fe_bitmap)

\* A bitmap with two free runs around used clusters, one run longer than 1.
C7_Witness ==
    /\ fe_pc = "done"
    /\ Len(fe_out) = 2
    /\ fe_out[1][1] > 2
    /\ fe_out[2][2] >= 2

(***************************************************************************)
(* BootSector (fat32_parser.py 6-15) and the geometry derived from it.     *)
(***************************************************************************)
\* boot_sector before parse_boot_sector has set it.
None == [none |-> TRUE]

BootSector(bytes_per_sector, sectors_per_cluster, reserved_sectors, num_fats, total_sectors, sectors_per_fat, root_dir_cluster, signature) ==
    [bytes_per_sector |-> bytes_per_sector,
     sectors_per_cluster |-> sectors_per_cluster,
     reserved_sectors |-> reserved_sectors,
     num_fats |-> num_fats,
     total_sectors |-> total_sectors,
     sectors_per_fat |-> sectors_per_fat,
     root_dir_cluster |-> root_dir_cluster,
     signature |-> signature]

\* analyser.py 44-46.
cluster_size(bs) == bs.sectors_per_cluster * bs.bytes_per_sector

\* analyser.py 48-51; the division is Python's floor division, and raises
\* ZeroDivisionError when sectors_per_cluster is 0.
total_clusters(bs) ==
    (bs.total_sectors - (bs.reserved_sectors + bs.num_fats * bs.sectors_per_fat))
        \div bs.sectors_per_cluster

\* Bound of total_sectors in the boot sectors drawn as decoded.
MaxSectors == 5

\* Decoded boot sectors: one reserved sector, one FAT of one sector, 0 to
\* MaxSectors sectors in all, clusters of 0, 1 or 2 sectors of 512 bytes.
DecodedBootSectors ==
    {BootSector(512, spc, 1, 1, ts, 1, 2, 43605) :
        spc \in {0, 1, 2}, ts \in 0..MaxSectors}

(***************************************************************************)
(* FAT32Parser.open, close and parse_boot_sector (fat32_parser.py 23-71).  *)
(***************************************************************************)
\* struct.unpack('<B' / '<H' / '<I') of the bytes of data at offset o.
UnpackB(data, o) == data[o]
UnpackH(data, o) == data[o] + 256 * data[o + 1]
UnpackI(data, o) ==
    data[o] + 256 * data[o + 1] + 65536 * data[o + 2] + 16777216 * data[o + 3]

\* The offsets of the boot sector that parse_boot_sector reads.
BootOffsets == {11, 12, 13, 14, 15, 16} \cup (32..39) \cup (44..47) \cup {510, 511}

\* The first 512 bytes of an image, as the bytes at BootOffsets: geometry
\* bytes that do or do not keep the invariants, under a signature that is or
\* is not 0x55 0xAA. reserved_sectors is 32, total_sectors 65536 and
\* sectors_per_fat 513 in all of them.
BootImages ==
    {[o \in BootOffsets |->
        CASE o = 12 -> bps_hi
          [] o = 13 -> spc
          [] o = 14 -> 32
          [] o = 16 -> nf
          [] o = 34 -> 1
          [] o = 36 -> 1
          [] o = 37 -> 2
          [] o = 44 -> root
          [] o = 510 -> s0
          [] o = 511 -> s1
          [] OTHER -> 0] :
        bps_hi \in {0, 2, 3, 16}, spc \in {0, 1, 3, 128}, nf \in {0, 2},
        root \in {0, 1, 2}, s0 \in {85, 0}, s1 \in {170, 85}}

\* An image shorter than 512 bytes: read(512) returns no byte 510.
TruncatedImage == [o \in {11} |-> 0]

PbIdle == file_handle = "None" /\ boot_data = <<>> /\ pb_pc = "idle"

PbInit ==
    /\ file_handle = "None"
    /\ boot_sector = None
    /\ boot_data \in BootImages \cup {TruncatedImage}
    /\ pb_pc = "ready"

\* Lines 23-27.
Open ==
    /\ pb_pc = "ready"
    /\ file_handle = "None"
    /\ file_handle' = "open"
    /\ UNCHANGED <<boot_sector, boot_data, pb_pc>>
    /\ UNCHANGED pbRest

\* Lines 29-32.
Close ==
    /\ file_handle = "open"
    /\ file_handle' = "None"
    /\ UNCHANGED <<boot_sector, boot_data, pb_pc>>
    /\ UNCHANGED pbRest

\* Line 48.
signature_ok(data) == ~(data[510] # 85 \/ data[511] # 170)

\* Lines 51-69: the BootSector decoded from the 512 bytes.
decode_boot_sector(data) ==
    BootSector(UnpackH(data, 11), UnpackB(data, 13), UnpackH(data, 14),
               UnpackB(data, 16), UnpackI(data, 32), UnpackI(data, 36),
               UnpackI(data, 44), UnpackH(data, 510))

\* Lines 42-43.
ParseBootSectorNotOpen ==
    /\ pb_pc = "ready"
    /\ file_handle = "None"
    /\ pb_pc' = "RuntimeError"
    /\ UNCHANGED <<file_handle, boot_sector, boot_data>>
    /\ UNCHANGED pbRest

\* Line 48 on fewer than 512 bytes: boot_data[510] is out of range.
ParseBootSectorTruncated ==
    /\ pb_pc = "ready"
    /\ file_handle = "open"
    /\ 510 \notin DOMAIN boot_data
    /\ pb_pc' = "IndexError"
    /\ UNCHANGED <<file_handle, boot_sector, boot_data>>
    /\ UNCHANGED pbRest

\* Lines 48-49.
ParseBootSectorBadSignature ==
    /\ pb_pc = "ready"
    /\ file_handle = "open"
    /\ 510 \in DOMAIN boot_data
    /\ ~signature_ok(boot_data)
    /\ pb_pc' = "ValueError"
    /\ UNCHANGED <<file_handle, boot_sector, boot_data>>
    /\ UNCHANGED pbRest

\* Lines 51-71.
ParseBootSector ==
    /\ pb_pc = "ready"
    /\ file_handle = "open"
    /\ 510 \in DOMAIN boot_data
    /\ signature_ok(boot_data)
    /\ boot_sector' = decode_boot_sector(boot_data)
    /\ pb_pc' = "returned"
    /\ UNCHANGED <<file_handle, boot_data>>
    /\ UNCHANGED pbRest

\* The invariants of a BootSector.
BootSectorInvariants(bs) ==
    /\ bs.bytes_per_sector \in {512, 1024, 2048, 4096}
    /\ bs.sectors_per_cluster \in {1, 2, 4, 8, 16, 32, 64, 128}
    /\ bs.num_fats >= 1
    /\ bs.root_dir_cluster >= 2
    /\ bs.signature = 43605

\* C9: whenever parse_boot_sector has set boot_sector, the decoded BootSector
\* satisfies all the invariants (so a boot sector with a valid signature that
\* violates another invariant leaves boot_sector unset).
C9_BootSectorValidated ==
    boot_sector # None => BootSectorInvariants(boot_sector)

\* parse_boot_sector has returned on a boot sector that keeps the invariants.
C9_Witness ==
    /\ pb_pc = "returned"
    /\ boot_sector # None
    /\ BootSectorInvariants(boot_sector)

(***************************************************************************)
(* The FAT: read_fat_entry (fat32_parser.py 101-111), the classification   *)
(* of an entry and the chain follower, and get_chain (analyser.py 53-58).  *)
(* FAT32Parser has no get_cluster_chain, which get_chain calls at line 56: *)
(* the follower and the classification of links are those the              *)
(* specification describes (FatTable, ChainFollower).                      *)
(***************************************************************************)
\* Bound of the cluster numbers that have an entry in the FAT.
MaxFatCluster == 4

FatClusters == 2..MaxFatCluster

\* Entries of 4 bytes, the low byte first.
FreeEntry == <<0, 0, 0, 0>>
BadEntry == <<247, 255, 255, 15>>
EndOfChain == <<255, 255, 255, 15>>
LinkTo(cluster) == <<cluster, 0, 0, 0>>

\* Free, bad, end of chain, a link to each cluster, and a link to cluster 3
\* under four high bits that the mask removes.
FatEntries ==
    {FreeEntry, BadEntry, EndOfChain, <<3, 0, 0, 240>>}
        \cup {LinkTo(c) : c \in FatClusters}

FatInputs == [FatClusters -> FatEntries]

\* A boot sector of one reserved sector and one FAT of one sector, whose data
\* area holds the clusters 2 .. MaxFatCluster - 1: the last cluster that has
\* a FAT entry is beyond total_clusters + 1.
ChainBootSector == BootSector(512, 1, 1, 1, MaxFatCluster, 1, 2, 43605)

\* Lines 101-111: the 4 bytes of the cluster's entry unpacked as '<I' and
\* masked with 0x0FFFFFFF, which keeps the low four bits of the high byte.
read_fat_entry(f, cluster) ==
    LET b == f[cluster]
    IN  b[1] + 256 * b[2] + 65536 * b[3] + 16777216 * (b[4] % 16)

\* FatTable: the entry is a link to a next cluster.
is_next(value) == 2 <= value /\ value <= 268435439

\* Mutant of the cycle test.
link_repeats_never(chain, value) == FALSE

\* ChainFollower: the linked cluster is in the chain already (CyclicChain).
link_repeats(chain, value) == value \in Range(chain)

\* ChainFollower: the linked cluster is beyond total_clusters + 1
\* (OutOfRangeLink).
link_out_of_range(bs, value) == value > total_clusters(bs) + 1

\* ChainFollower: the chain goes on from its last cluster.
chain_goes_on(f, bs, chain) ==
    LET value == read_fat_entry(f, chain[Len(chain)])
    IN  /\ is_next(value)
        /\ ~link_repeats(chain, value)
        /\ ~link_out_of_range(bs, value)

\* ChainFollower, as a function: the chain that extends chain.
RECURSIVE follow_chain(_, _, _)
follow_chain(f, bs, chain) ==
    IF chain_goes_on(f, bs, chain)
    THEN follow_chain(f, bs, Append(chain, read_fat_entry(f, chain[Len(chain)])))
    ELSE chain

get_cluster_chain(f, bs, start_cluster) == follow_chain(f, bs, <<start_cluster>>)

\* Lines 53-58, as a function: the chain and the cache after the call.
get_chain(f, bs, cache, start_cluster) ==
    IF start_cluster \in DOMAIN cache
    THEN <<cache[start_cluster], cache>>
    ELSE LET chain == get_cluster_chain(f, bs, start_cluster)
         IN  <<chain, [c \in DOMAIN cache \cup {start_cluster} |->
                          IF c = start_cluster THEN chain ELSE cache[c]]>>

EmptyCache == [c \in {} |-> <<>>]

\* The follower stops the model at a chain of this length; no chain without a
\* repeated cluster is that long.
FollowCap == MaxFatCluster + 2

GcIdle == gc_pc = "idle" /\ gc_start = 0 /\ gc_chain = <<>>

FatIdle == fat = <<>> /\ cluster_chain_cache = EmptyCache

GcInit ==
    /\ fat \in FatInputs
    /\ boot_sector = ChainBootSector
    /\ cluster_chain_cache = EmptyCache
    /\ gc_pc = "ready"
    /\ gc_start = 0
    /\ gc_chain = <<>>

\* Lines 54-55: the chain is in the cache.
GetChainCached ==
    /\ gc_pc \in {"ready", "returned"}
    /\ \E start_cluster \in FatClusters :
        /\ start_cluster \in DOMAIN cluster_chain_cache
        /\ gc_start' = start_cluster
        /\ gc_chain' = cluster_chain_cache[start_cluster]
    /\ gc_pc' = "returned"
    /\ UNCHANGED <<fat, boot_sector, cluster_chain_cache>>
    /\ UNCHANGED gcRest

\* Line 56: the call of get_cluster_chain, whose chain starts as [start].
GetChainFollow ==
    /\ gc_pc \in {"ready", "returned"}
    /\ \E start_cluster \in FatClusters :
        /\ start_cluster \notin DOMAIN cluster_chain_cache
        /\ gc_start' = start_cluster
        /\ gc_chain' = <<start_cluster>>
    /\ gc_pc' = "following"
    /\ UNCHANGED <<fat, boot_sector, cluster_chain_cache>>
    /\ UNCHANGED gcRest

\* ChainFollower: one more cluster.
GetClusterChainNext ==
    /\ gc_pc = "following"
    /\ Len(gc_chain) < FollowCap
    /\ chain_goes_on(fat, boot_sector, gc_chain)
    /\ gc_chain' = Append(gc_chain, read_fat_entry(fat, gc_chain[Len(gc_chain)]))
    /\ UNCHANGED <<fat, boot_sector, cluster_chain_cache, gc_pc, gc_start>>
    /\ UNCHANGED gcRest

\* ChainFollower ends the chain; lines 57-58 cache and return it.
GetClusterChainEnd ==
    /\ gc_pc = "following"
    /\ ~chain_goes_on(fat, boot_sector, gc_chain)
    /\ cluster_chain_cache' =
           [c \in DOMAIN cluster_chain_cache \cup {gc_start} |->
               IF c = gc_start THEN gc_chain ELSE cluster_chain_cache[c]]
    /\ gc_pc' = "returned"
    /\ UNCHANGED <<fat, boot_sector, gc_start, gc_chain>>
    /\ UNCHANGED gcRest

\* C3: cycle safety. For every FAT and every start cluster from 2 on,
\* following the chain ends: get_chain returns, and the chain it follows or
\* returns never holds a cluster number twice.
C3_CycleSafety ==
    /\ [](NoDuplicates(gc_chain) /\ Len(gc_chain) < FollowCap)
    /\ (gc_pc = "following") ~> (gc_pc = "returned")

\* get_chain has returned a chain of two clusters from a FAT in which the
\* second cluster links back to the first.
C3_Witness ==
    /\ gc_pc = "returned"
    /\ Len(gc_chain) = 2
    /\ read_fat_entry(fat, gc_chain[2]) = gc_chain[1]

(***************************************************************************)
(* DirectoryEntry and parse_directory_entries (directory_entry.py 6-118).  *)
(***************************************************************************)
\* A 32-byte slot, as its fields: bytes 0-7, bytes 8-10, byte 11, and the
\* words at 20, 26 and 28. The time and date words are left out: decoding
\* them (_parse_fat_time_date, lines 31-49) catches its own errors and gives a
\* timestamp or None, and no entry is emitted or dropped on their account.
Slot(name, ext, attributes, cluster_high, cluster_low, file_size) ==
    [name |-> name, ext |-> ext, attributes |-> attributes,
     cluster_high |-> cluster_high, cluster_low |-> cluster_low,
     file_size |-> file_size]

\* A buffer: its complete slots in order, and the bytes (fewer than 32) that
\* follow the last complete slot.
ClusterData(slots, tail) == [slots |-> slots, tail |-> tail]

DataLen(cluster_data) == 32 * Len(cluster_data.slots) + cluster_data.tail

\* cluster_data[pos:pos+32] for a pos with pos + 32 <= len(cluster_data).
SlotAt(cluster_data, pos) == cluster_data.slots[(pos \div 32) + 1]

\* bytes.decode('ascii', errors='replace'): a byte above 127 becomes U+FFFD.
DecodeAscii(bytes) ==
    [k \in 1..Len(bytes) |-> IF bytes[k] > 127 THEN 65533 ELSE bytes[k]]

\* The characters str.strip and str.rstrip remove, among those below 128.
Whitespace == {9, 10, 11, 12, 13, 28, 29, 30, 31, 32}

RECURSIVE RStrip(_)
RStrip(str) ==
    IF str # <<>> /\ str[Len(str)] \in Whitespace
    THEN RStrip(SubSeq(str, 1, Len(str) - 1))
    ELSE str

RECURSIVE LStrip(_)
LStrip(str) ==
    IF str # <<>> /\ str[1] \in Whitespace THEN LStrip(Tail(str)) ELSE str

Strip(str) == LStrip(RStrip(str))

\* x & bit, for a byte x and bit a power of two: non-zero or zero.
HasBit(x, bit) == (x \div bit) % 2 = 1

\* Lines 71-109: the entry decoded from a short-name slot.
DirectoryEntry(entry_data) ==
    [name |-> RStrip(DecodeAscii(entry_data.name)),
     extension |-> RStrip(DecodeAscii(entry_data.ext)),
     attributes |-> entry_data.attributes,
     first_cluster |-> entry_data.cluster_high * 65536 + entry_data.cluster_low,
     file_size |-> entry_data.file_size,
     is_directory |-> HasBit(entry_data.attributes, 16),
     is_volume_label |-> HasBit(entry_data.attributes, 8),
     is_deleted |-> FALSE]

\* Lines 20-24.
full_name(e) ==
    IF e.extension # <<>> THEN e.name \o <<46>> \o e.extension ELSE e.name

\* Mutant of the test of line 61.
is_deleted_slot_escape(entry_data) == entry_data.name[1] = 5

\* Line 58.
is_end_slot(entry_data) == entry_data.name[1] = 0

\* Line 61.
is_deleted_slot(entry_data) == entry_data.name[1] = 229

\* Lines 65-66.
is_long_name_slot(entry_data) == entry_data.attributes = 15

\* Lines 55-116: the loop from pos on. The except clause of line 113 is dead:
\* the slices of a complete slot have the sizes unpack wants, and decode
\* replaces what it cannot decode.
RECURSIVE parse_loop(_, _, _)
parse_loop(cluster_data, pos, entries) ==
    IF ~(pos + 32 <= DataLen(cluster_data))
    THEN entries
    ELSE LET entry_data == SlotAt(cluster_data, pos)
         IN  IF is_end_slot(entry_data) THEN entries
             ELSE IF is_deleted_slot(entry_data)
             THEN parse_loop(cluster_data, pos + 32, entries)
             ELSE IF is_long_name_slot(entry_data)
             THEN parse_loop(cluster_data, pos + 32, entries)
             ELSE parse_loop(cluster_data, pos + 32,
                             Append(entries, DirectoryEntry(entry_data)))

\* Lines 51-118.
parse_directory_entries(cluster_data) == parse_loop(cluster_data, 0, <<>>)

\* Bound of the buffers handed to parse_directory_entries.
MaxSlots == 3

\* Names of 8 bytes and extensions of 3, padded with spaces.
Name8(chars) == chars \o [k \in 1..(8 - Len(chars)) |-> 32]
Ext3(chars) == chars \o [k \in 1..(3 - Len(chars)) |-> 32]

\* Slots that end the directory, are deleted, carry a long name, or are
\* short-name entries of a file or of a directory.
SlotInputs ==
    {Slot(Name8(<<b0>>), Ext3(<<>>), attr, 0, 3, 0) :
        b0 \in {0, 229, 65, 66}, attr \in {15, 16, 32}}

ClusterDataInputs ==
    {ClusterData(slots, tail) :
        slots \in SeqsUpTo(SlotInputs, MaxSlots), tail \in {0, 31}}

DpIdle == dp_pc = "idle" /\ dp_cluster_data = <<>> /\ dp_entries = <<>>

DpInit ==
    /\ dp_pc = "call"
    /\ dp_cluster_data \in ClusterDataInputs
    /\ dp_entries = <<>>

ParseDirectoryEntries ==
    /\ dp_pc = "call"
    /\ dp_entries' = parse_directory_entries(dp_cluster_data)
    /\ dp_pc' = "returned"
    /\ UNCHANGED dp_cluster_data
    /\ UNCHANGED dpRest

\* The complete slots before the first slot whose byte 0 is 0x00.
BeforeTerminator(slots) ==
    LET ends == {k \in 1..Len(slots) : slots[k].name[1] = 0}
        first == IF ends = {} THEN Len(slots) + 1
                 ELSE CHOOSE k \in ends : \A m \in ends : k <= m
    IN  SubSeq(slots, 1, first - 1)

\* Neither deleted (byte 0 is 0xE5) nor a long-filename slot (byte 11 is 0x0F).
IsShortNameSlot(slot) == slot.name[1] # 229 /\ slot.attributes # 15

\* C10: parse_directory_entries emits, in slot order, exactly one entry for
\* every complete slot before the first slot whose byte 0 is 0x00 that is
\* neither deleted nor a long-filename slot, and nothing else.
C10_SlotScan ==
    dp_pc = "returned" =>
        LET kept == SelectSeq(BeforeTerminator(dp_cluster_data.slots),
                              IsShortNameSlot)
        IN  /\ Len(dp_entries) = Len(kept)
            /\ \A k \in 1..Len(kept) :
                   /\ dp_entries[k].name = RStrip(DecodeAscii(kept[k].name))
                   /\ dp_entries[k].attributes = kept[k].attributes

\* A buffer with a skipped slot, an emitted one, then the terminator and a
\* short-name slot after it, and a partial slot at the end.
C10_Witness ==
    /\ dp_pc = "returned"
    /\ Len(dp_cluster_data.slots) = 3
    /\ dp_cluster_data.tail > 0
    /\ ~IsShortNameSlot(dp_cluster_data.slots[1])
    /\ dp_cluster_data.slots[2].name[1] = 0
    /\ Len(dp_entries) = 0

(***************************************************************************)
(* FileRecord (analyser.py 11-19).                                         *)
(***************************************************************************)
FileRecord(path, size_bytes, first_cluster, clusters, extents, fragments, is_directory) ==
    [path |-> path, size_bytes |-> size_bytes, first_cluster |-> first_cluster,
     clusters |-> clusters, extents |-> extents, fragments |-> fragments,
     is_directory |-> is_directory]

\* A record as lines 91-101 and 106-117 build it from a chain: the extents
\* and the fragment count are those of the chain.
RecordOfChain(chain, size_bytes, is_directory) ==
    FileRecord(<<>>, size_bytes, IF chain = <<>> THEN 0 ELSE chain[1], chain,
               to_extents(chain), Len(to_extents(chain)), is_directory)

(***************************************************************************)
(* The walker: read_cluster (fat32_parser.py 93-99), read_chain_bytes,     *)
(* parse_directory_by_cluster, walk, _walk_dir and _record_for_dir         *)
(* (analyser.py 60-117).                                                   *)
(***************************************************************************)
\* Bounds: the slots written in the root's cluster and in the cluster of a
\* subdirectory (the rest of the cluster is zero), and the frames of
\* _walk_dir the interpreter allows.
MaxDirSlots == 2
MaxSubSlots == 1
MaxDepth == 3

SlotsPerCluster(bs) == cluster_size(bs) \div 32

ZeroSlot == Slot([k \in 1..8 |-> 0], [k \in 1..3 |-> 0], 0, 0, 0, 0)

\* The bytes of a cluster whose first slots are given and whose other bytes
\* are zero.
ClusterOf(bs, slots) ==
    slots \o [k \in 1..(SlotsPerCluster(bs) - Len(slots)) |-> ZeroSlot]

\* A boot sector whose data area holds the clusters 2 .. MaxFatCluster, the
\* root directory starting at cluster 2.
WalkBootSector == BootSector(512, 1, 1, 1, MaxFatCluster + 1, 1, 2, 43605)

\* Slots of directories: an empty file F, a file G.T at cluster 4, a
\* directory D at cluster 3, a directory E at cluster 2 (the root's own
\* cluster, as a corrupted image has it), a "." entry and a volume label.
WalkSlots ==
    {Slot(Name8(<<70>>), Ext3(<<>>), 32, 0, 0, 0),
     Slot(Name8(<<71>>), Ext3(<<84>>), 32, 0, 4, 9),
     Slot(Name8(<<68>>), Ext3(<<>>), 16, 0, 3, 0),
     Slot(Name8(<<69>>), Ext3(<<>>), 16, 0, 2, 0),
     Slot(Name8(<<46>>), Ext3(<<>>), 16, 0, 3, 0),
     Slot(Name8(<<86>>), Ext3(<<>>), 8, 0, 0, 0)}

\* Clusters 2 and 3 hold directory slots; the other clusters are zero.
DiskInputs ==
    {[c \in FatClusters |->
        ClusterOf(WalkBootSector,
                  IF c = 2 THEN s2 ELSE IF c = 3 THEN s3 ELSE <<>>)] :
        s2 \in SeqsUpTo(WalkSlots, MaxDirSlots),
        s3 \in SeqsUpTo(WalkSlots, MaxSubSlots)}

\* Every chain a single cluster, or cluster 3 linked to cluster 4.
WalkFatInputs ==
    {[c \in FatClusters |-> EndOfChain],
     [c \in FatClusters |-> IF c = 3 THEN LinkTo(4) ELSE EndOfChain]}

\* fat32_parser.py 93-99: the bytes of a cluster, as its slots.
read_cluster(d, cluster) == d[cluster]

\* analyser.py 63-65: the bytes of the clusters of a chain, from the k-th on.
RECURSIVE chain_bytes(_, _, _)
chain_bytes(d, chain, k) ==
    IF k > Len(chain) THEN <<>>
    ELSE read_cluster(d, chain[k]) \o chain_bytes(d, chain, k + 1)

\* analyser.py 60-68: the bytes, and the two caches after the call.
read_chain_bytes(f, bs, d, ccache, dcache, start_cluster) ==
    IF start_cluster \in DOMAIN dcache
    THEN [data |-> dcache[start_cluster], ccache |-> ccache, dcache |-> dcache]
    ELSE LET got == get_chain(f, bs, ccache, start_cluster)
             data == chain_bytes(d, got[1], 1)
         IN  [data |-> data, ccache |-> got[2],
              dcache |-> [c \in DOMAIN dcache \cup {start_cluster} |->
                             IF c = start_cluster THEN data ELSE dcache[c]]]

\* str.rstrip("/").
RECURSIVE RStripSlash(_)
RStripSlash(str) ==
    IF str # <<>> /\ str[Len(str)] = 47
    THEN RStripSlash(SubSeq(str, 1, Len(str) - 1))
    ELSE str

\* Lines 91, 107: the chain of a first cluster, none below 2, and the cache
\* after the call.
chain_of(f, bs, ccache, first_cluster) ==
    IF first_cluster >= 2 THEN get_chain(f, bs, ccache, first_cluster)
    ELSE <<<<>>, ccache>>

\* Lines 106-117.
record_for_dir(path, first_cluster, chain) ==
    FileRecord(IF path # <<>> THEN path ELSE <<47>>, 0, first_cluster, chain,
               to_extents(chain), Len(to_extents(chain)), TRUE)

\* Lines 85-89: the entry is passed over.
is_skipped(e) ==
    \/ e.is_volume_label
    \/ Strip(e.name) = <<>>
    \/ Strip(e.name) \in {<<46>>, <<46, 46>>}

\* Line 90.
entry_path(prefix, e) ==
    prefix \o (IF Strip(full_name(e)) # <<>> THEN Strip(full_name(e))
               ELSE Strip(e.name))

\* Lines 93-101.
record_for_entry(prefix, e, chain) ==
    FileRecord(entry_path(prefix, e), e.file_size, e.first_cluster, chain,
               to_extents(chain), Len(to_extents(chain)), e.is_directory)

\* Line 103: _walk_dir is called on the entry.
is_descended(e) == e.is_directory /\ e.first_cluster >= 2

\* Lines 82-83: the entries of the directory, its record, and the caches
\* after the calls.
walk_dir_enter(f, bs, d, ccache, dcache, cluster, prefix) ==
    LET raw == read_chain_bytes(f, bs, d, ccache, dcache, cluster)
        got == chain_of(f, bs, raw.ccache, cluster)
    IN  [entries |-> parse_directory_entries(ClusterData(raw.data, 0)),
         record |-> record_for_dir(RStripSlash(prefix), cluster, got[1]),
         ccache |-> got[2],
         dcache |-> raw.dcache]

Frame(cluster, prefix, entries) ==
    [cluster |-> cluster, prefix |-> prefix, entries |-> entries, i |-> 1]

EmptyBytesCache == [c \in {} |-> <<>>]

WkIdle ==
    /\ disk = <<>> /\ dir_bytes_cache = EmptyBytesCache
    /\ wk_pc = "idle" /\ wk_stack = <<>> /\ wk_out = <<>>
    /\ wk_descended = <<>> /\ wk_entry_paths = <<>>
    /\ wk_origin = <<>> /\ an_report = None

WkInit ==
    /\ boot_sector = WalkBootSector
    /\ fat \in WalkFatInputs
    /\ disk \in DiskInputs
    /\ cluster_chain_cache = EmptyCache
    /\ dir_bytes_cache = EmptyBytesCache
    /\ wk_pc = "call" /\ wk_stack = <<>> /\ wk_out = <<>>
    /\ wk_descended = <<>> /\ wk_entry_paths = <<>>
    /\ wk_origin = <<>> /\ an_report = None

\* The frame that runs, its entry in turn, and the frame moved to the next
\* entry.
TopFrame == wk_stack[Len(wk_stack)]
CurrentEntry == TopFrame.entries[TopFrame.i]
HasEntry == wk_pc = "walking" /\ TopFrame.i <= Len(TopFrame.entries)
StackAdvanced == [wk_stack EXCEPT ![Len(wk_stack)].i = @ + 1]

\* The call of _walk_dir that runs, named by the positions, in the entries of
\* the calls below it, of the entries descended into (the root's call is
\* <<>>): a frame below the top stands one past the entry it descended into.
TopCall == [k \in 1..(Len(wk_stack) - 1) |-> wk_stack[k].i - 1]

\* The origin of a record: the call that appended it and the position of its
\* entry in that call's entries, 0 for the record of line 83.
Origin(call, entry) == [call |-> call, entry |-> entry]

\* Lines 74-78 and, for the root, lines 82-83.
Walk ==
    /\ wk_pc = "call"
    /\ LET root == boot_sector.root_dir_cluster
           dir == walk_dir_enter(fat, boot_sector, disk, cluster_chain_cache,
                                 dir_bytes_cache, root, <<47>>)
       IN  /\ wk_stack' = <<Frame(root, <<47>>, dir.entries)>>
           /\ wk_out' = <<dir.record>>
           /\ cluster_chain_cache' = dir.ccache
           /\ dir_bytes_cache' = dir.dcache
           /\ wk_descended' = <<root>>
    /\ wk_origin' = <<Origin(<<>>, 0)>>
    /\ wk_pc' = "walking"
    /\ UNCHANGED <<boot_sector, fat, disk, wk_entry_paths, an_report>>
    /\ UNCHANGED wkRest

\* Lines 84-89: a volume label, an empty name, "." or "..".
WalkEntrySkipped ==
    /\ HasEntry
    /\ is_skipped(CurrentEntry)
    /\ wk_stack' = StackAdvanced
    /\ UNCHANGED <<boot_sector, fat, disk, cluster_chain_cache, dir_bytes_cache,
                   wk_pc, wk_out, wk_descended, wk_entry_paths, wk_origin,
                   an_report>>
    /\ UNCHANGED wkRest

\* Lines 90-103: a record for an entry that is not descended into.
WalkEntryRecorded ==
    /\ HasEntry
    /\ ~is_skipped(CurrentEntry)
    /\ ~is_descended(CurrentEntry)
    /\ LET e == CurrentEntry
           got == chain_of(fat, boot_sector, cluster_chain_cache, e.first_cluster)
       IN  /\ wk_out' = Append(wk_out, record_for_entry(TopFrame.prefix, e, got[1]))
           /\ cluster_chain_cache' = got[2]
           /\ wk_entry_paths' = Append(wk_entry_paths, entry_path(TopFrame.prefix, e))
    /\ wk_origin' = Append(wk_origin, Origin(TopCall, TopFrame.i))
    /\ wk_stack' = StackAdvanced
    /\ UNCHANGED <<boot_sector, fat, disk, dir_bytes_cache, wk_pc, wk_descended,
                   an_report>>
    /\ UNCHANGED wkRest

\* Lines 90-104 and, for the subdirectory, lines 82-83: the record of the
\* entry, the call of _walk_dir, the record of the directory.
WalkEntryDescended ==
    /\ HasEntry
    /\ ~is_skipped(CurrentEntry)
    /\ is_descended(CurrentEntry)
    /\ Len(wk_stack) < MaxDepth
    /\ LET e == CurrentEntry
           path == entry_path(TopFrame.prefix, e)
           got == chain_of(fat, boot_sector, cluster_chain_cache, e.first_cluster)
           prefix == RStripSlash(path) \o <<47>>
           dir == walk_dir_enter(fat, boot_sector, disk, got[2], dir_bytes_cache,
                                 e.first_cluster, prefix)
       IN  /\ wk_out' = wk_out \o <<record_for_entry(TopFrame.prefix, e, got[1]),
                                    dir.record>>
           /\ wk_stack' = Append(StackAdvanced,
                                 Frame(e.first_cluster, prefix, dir.entries))
           /\ cluster_chain_cache' = dir.ccache
           /\ dir_bytes_cache' = dir.dcache
           /\ wk_descended' = Append(wk_descended, e.first_cluster)
           /\ wk_entry_paths' = Append(wk_entry_paths, path)
    /\ wk_origin' = wk_origin \o <<Origin(TopCall, TopFrame.i),
                                    Origin(Append(TopCall, TopFrame.i), 0)>>
    /\ UNCHANGED <<boot_sector, fat, disk, wk_pc, an_report>>
    /\ UNCHANGED wkRest

\* Line 104 at the interpreter's recursion limit: the call raises.
WalkRecursionError ==
    /\ HasEntry
    /\ ~is_skipped(CurrentEntry)
    /\ is_descended(CurrentEntry)
    /\ Len(wk_stack) >= MaxDepth
    /\ LET e == CurrentEntry
           got == chain_of(fat, boot_sector, cluster_chain_cache, e.first_cluster)
       IN  /\ wk_out' = Append(wk_out, record_for_entry(TopFrame.prefix, e, got[1]))
           /\ cluster_chain_cache' = got[2]
           /\ wk_entry_paths' = Append(wk_entry_paths, entry_path(TopFrame.prefix, e))
    /\ wk_origin' = Append(wk_origin, Origin(TopCall, TopFrame.i))
    /\ wk_pc' = "RecursionError"
    /\ UNCHANGED <<boot_sector, fat, disk, dir_bytes_cache, wk_stack, wk_descended,
                   an_report>>
    /\ UNCHANGED wkRest

\* Line 84 with no entry left: _walk_dir returns, and walk (line 79) when it
\* was the root's.
WalkDirReturn ==
    /\ wk_pc = "walking"
    /\ TopFrame.i > Len(TopFrame.entries)
    /\ wk_stack' = SubSeq(wk_stack, 1, Len(wk_stack) - 1)
    /\ wk_pc' = IF Len(wk_stack) = 1 THEN "returned" ELSE "walking"
    /\ UNCHANGED <<boot_sector, fat, disk, cluster_chain_cache, dir_bytes_cache,
                   wk_out, wk_descended, wk_entry_paths, wk_origin, an_report>>
    /\ UNCHANGED wkRest

Paths(records) == [k \in 1..Len(records) |-> records[k].path]

\* C1: the walker never calls _walk_dir on the same starting cluster twice.
C1_NoDirectoryWalkedTwice == NoDuplicates(wk_descended)

\* C2: when walk returns from a tree in which no directory is reached twice
\* and the entries have pairwise distinct paths, no path occurs in two
\* records, and the records are one for the root and one for each entry that
\* was not skipped.
C2_OneRecordPerEntry ==
    (/\ wk_pc = "returned"
     /\ NoDuplicates(wk_descended)
     /\ NoDuplicates(wk_entry_paths)) =>
        /\ NoDuplicates(Paths(wk_out))
        /\ Len(wk_out) = 1 + Len(wk_entry_paths)

(***************************************************************************)
(* build_allocation_bitmap (analyser.py 119-127).                          *)
(***************************************************************************)
\* Bounds of the records handed to build_allocation_bitmap.
MaxBmRecords == 2
MaxBmLen == 1
MaxBmCluster == 4

BmRecordInputs ==
    SeqsUpTo({RecordOfChain(c, 0, FALSE) :
                 c \in SeqsUpTo(0..MaxBmCluster, MaxBmLen)}, MaxBmRecords)

\* Mutant of the index of line 124.
bitmap_index_off(c) == c - 1

\* Line 124: the bitmap index of cluster c.
bitmap_index(c) == c - 2

\* Lines 123-126: the clusters of one record, from the k-th on.
RECURSIVE mark_clusters(_, _, _, _)
mark_clusters(bitmap, clusters, k, n) ==
    IF k > Len(clusters) THEN bitmap
    ELSE LET idx == bitmap_index(clusters[k])
         IN  IF 0 <= idx /\ idx < n
             THEN mark_clusters([bitmap EXCEPT ![idx + 1] = 1], clusters, k + 1, n)
             ELSE mark_clusters(bitmap, clusters, k + 1, n)

\* Lines 122-126: the records, from the r-th on.
RECURSIVE mark_records(_, _, _, _)
mark_records(bitmap, records, r, n) ==
    IF r > Len(records) THEN bitmap
    ELSE mark_records(mark_clusters(bitmap, records[r].clusters, 1, n),
                      records, r + 1, n)

\* Lines 120-127; [0] * n is the empty list when n is negative.
build_allocation_bitmap(bs, records) ==
    LET n == total_clusters(bs)
    IN  mark_records([k \in 1..n |-> 0], records, 1, n)

BmIdle == bm_pc = "idle" /\ bm_records = <<>> /\ bm_bitmap = <<>>

BmInit ==
    /\ bm_pc = "call"
    /\ bm_records \in BmRecordInputs
    /\ bm_bitmap = <<>>
    /\ boot_sector \in DecodedBootSectors

BuildAllocationBitmap ==
    /\ bm_pc = "call"
    /\ boot_sector.sectors_per_cluster # 0
    /\ bm_bitmap' = build_allocation_bitmap(boot_sector, bm_records)
    /\ bm_pc' = "returned"
    /\ UNCHANGED <<boot_sector, bm_records>>
    /\ UNCHANGED bmRest

\* total_clusters() divides by sectors_per_cluster (line 51).
BuildAllocationBitmapRaises ==
    /\ bm_pc = "call"
    /\ boot_sector.sectors_per_cluster = 0
    /\ bm_pc' = "ZeroDivisionError"
    /\ UNCHANGED <<boot_sector, bm_records, bm_bitmap>>
    /\ UNCHANGED bmRest

\* Cluster c is listed by some record.
Listed(records, c) == \E r \in 1..Len(records) : c \in Range(records[r].clusters)

BitsExact(bitmap, records) ==
    /\ \A i \in 0..(Len(bitmap) - 1) : Bit(bitmap, i) \in {0, 1}
    /\ \A i \in 0..(Len(bitmap) - 1) :
           Bit(bitmap, i) = 1 <=> Listed(records, i + 2)

\* C8 as stated: build_allocation_bitmap returns exactly total_clusters bits,
\* bit i being 1 if and only if some record lists cluster i + 2.
C8_Original ==
    bm_pc = "returned" =>
        /\ Len(bm_bitmap) = total_clusters(boot_sector)
        /\ BitsExact(bm_bitmap, bm_records)

\* C8 amended: build_allocation_bitmap returns exactly total_clusters bits, or
\* none when total_clusters is negative; bit i is 1 if and only if some record
\* lists cluster i + 2, so clusters out of range set no bit and shared
\* clusters set their bit once.
C8_BitmapExact ==
    bm_pc = "returned" =>
        /\ total_clusters(boot_sector) >= 0 =>
               Len(bm_bitmap) = total_clusters(boot_sector)
        /\ total_clusters(boot_sector) < 0 => Len(bm_bitmap) = 0
        /\ BitsExact(bm_bitmap, bm_records)

\* Two records, the first listing a cluster out of range, and a bitmap of
\* two bits, one set and one clear.
C8_Witness ==
    /\ bm_pc = "returned"
    /\ Len(bm_bitmap) = 2
    /\ Len(bm_records) = 2
    /\ \E c \in Range(bm_records[1].clusters) :
           c < 2 \/ c > total_clusters(boot_sector) + 1
    /\ \E i \in 0..1 : Bit(bm_bitmap, i) = 1
    /\ \E i \in 0..1 : Bit(bm_bitmap, i) = 0

(***************************************************************************)
(* stats (analyser.py 143-165).                                            *)
(***************************************************************************)
\* Bounds of the records handed to stats.
MaxStatRecords == 2
MaxStatLen == 2
MaxStatCluster == 3

\* Chains the walker can put in a record: clusters from 2 on, or none for an
\* entry whose first_cluster is below 2.
StatChains == {c \in SeqsUpTo(2..MaxStatCluster, MaxStatLen) : NoDuplicates(c)}

StatRecordInputs ==
    SeqsUpTo({RecordOfChain(c, sz, d) :
                 c \in StatChains, sz \in {0, 1}, d \in BOOLEAN}, MaxStatRecords)

Max(a, b) == IF a >= b THEN a ELSE b

RECURSIVE MaxSeq(_, _)
MaxSeq(s, default) ==
    IF s = <<>> THEN default ELSE Max(Head(s), MaxSeq(Tail(s), Head(s)))

IsFile(r) == ~r.is_directory

\* A quotient a / b of Python's true division, kept as the pair (a, b).
Quotient(a, b) == <<a, b>>

\* Lines 144-165. The division of line 150 has a divisor of at least 1.
stats(bs, records, free_runs) ==
    LET files == SelectSeq(records, IsFile)
        frags == [k \in 1..Len(files) |-> files[k].fragments]
        fragmented == Cardinality({k \in 1..Len(files) : files[k].fragments > 1})
        largest_free == MaxSeq(ExtentLengths(free_runs), 0)
    IN  [files_total |-> Len(files),
         files_fragmented |-> fragmented,
         files_fragmented_pct |->
             IF Len(files) > 0 THEN Quotient(fragmented * 100, Len(files))
             ELSE Quotient(0, 1),
         avg_fragments_per_file |->
             IF Len(files) > 0 THEN Quotient(SumSeq(frags), Len(files))
             ELSE Quotient(0, 1),
         max_fragments |-> MaxSeq(frags, 0),
         total_size_bytes |-> SumSeq([k \in 1..Len(files) |-> files[k].size_bytes]),
         cluster_size_bytes |-> cluster_size(bs),
         total_clusters |-> total_clusters(bs),
         free_runs_count |-> Len(free_runs),
         largest_free_run_clusters |-> largest_free,
         largest_free_run_bytes |-> largest_free * cluster_size(bs),
         volume_fragmentation_index |->
             Quotient(SumSeq([k \in 1..Len(files) |-> files[k].fragments - 1]),
                      Max(1, SumSeq(frags)))]

StIdle ==
    st_pc = "idle" /\ st_records = <<>> /\ st_free_runs = <<>> /\ st_stats = <<>>

StInit ==
    /\ st_pc = "call"
    /\ st_records \in StatRecordInputs
    /\ st_free_runs \in {<<>>, <<<<4, 4>>, <<9, 3>>>>}
    /\ st_stats = <<>>
    /\ boot_sector \in {bs \in DecodedBootSectors : bs.total_sectors = MaxSectors}

Stats ==
    /\ st_pc = "call"
    /\ boot_sector.sectors_per_cluster # 0
    /\ st_stats' = stats(boot_sector, st_records, st_free_runs)
    /\ st_pc' = "returned"
    /\ UNCHANGED <<boot_sector, st_records, st_free_runs>>
    /\ UNCHANGED stRest

\* total_clusters() divides by sectors_per_cluster (lines 51, 160).
StatsRaises ==
    /\ st_pc = "call"
    /\ boot_sector.sectors_per_cluster = 0
    /\ st_pc' = "ZeroDivisionError"
    /\ UNCHANGED <<boot_sector, st_records, st_free_runs, st_stats>>
    /\ UNCHANGED stRest

\* C4: fragmentation bounds. The volume_fragmentation_index a / b that stats
\* returns satisfies 0 <= a / b < 1 (b is at least 1), for every sequence of
\* records the walker can emit, records of empty files included.
C4_FragmentationBounds ==
    st_pc = "returned" =>
        LET v == st_stats.volume_fragmentation_index
        IN  0 <= v[1] /\ v[1] < v[2]

\* stats has returned for records among which is an empty file.
C4_Witness ==
    /\ st_pc = "returned"
    /\ \E k \in 1..Len(st_records) :
           ~st_records[k].is_directory /\ st_records[k].fragments = 0

(***************************************************************************)
(* analyze (analyser.py 167-178), after walk has returned, and the order   *)
(* of the records of walk (analyser.py 74-104).                            *)
(***************************************************************************)
\* dataclasses.asdict: the fields of a record, by name.
asdict(r) ==
    [path |-> r.path, size_bytes |-> r.size_bytes,
     first_cluster |-> r.first_cluster, clusters |-> r.clusters,
     extents |-> r.extents, fragments |-> r.fragments,
     is_directory |-> r.is_directory]

IsDir(r) == r.is_directory

Reverse(s) == [k \in 1..Len(s) |-> s[Len(s) + 1 - k]]

\* Mutant of line 175: the files, last first.
report_files_reversed(records) ==
    Reverse([k \in 1..Len(SelectSeq(records, IsFile)) |->
                asdict(SelectSeq(records, IsFile)[k])])

\* Line 175.
report_files(records) ==
    [k \in 1..Len(SelectSeq(records, IsFile)) |->
        asdict(SelectSeq(records, IsFile)[k])]

\* Line 176.
report_dirs(records) ==
    [k \in 1..Len(SelectSeq(records, IsDir)) |->
        asdict(SelectSeq(records, IsDir)[k])]

\* Line 177.
report_free_extents(free_runs) ==
    [k \in 1..Len(free_runs) |->
        [start_lcn |-> free_runs[k][1], length |-> free_runs[k][2]]]

\* Lines 171-178; the boot sector is parsed (line 168) and its
\* sectors_per_cluster is not 0, so that total_clusters() does not raise.
Analyze ==
    /\ wk_pc = "returned"
    /\ boot_sector # None
    /\ boot_sector.sectors_per_cluster # 0
    /\ LET records == wk_out
           bitmap == build_allocation_bitmap(boot_sector, records)
           free_runs == free_extents(bitmap)
       IN  an_report' = [stats |-> stats(boot_sector, records, free_runs),
                         files |-> report_files(records),
                         dirs |-> report_dirs(records),
                         free_extents |-> report_free_extents(free_runs)]
    /\ wk_pc' = "reported"
    /\ UNCHANGED <<boot_sector, fat, disk, cluster_chain_cache, dir_bytes_cache,
                   wk_stack, wk_out, wk_descended, wk_entry_paths, wk_origin>>
    /\ UNCHANGED wkRest

\* The entries of the directory that starts at a cluster, read from the image
\* with no cache.
DirEntries(cluster) ==
    parse_directory_entries(
        ClusterData(chain_bytes(disk,
                                get_chain(fat, boot_sector, EmptyCache, cluster)[1],
                                1), 0))

\* The cluster a call of _walk_dir was made on, and the prefix it was given.
RECURSIVE CallCluster(_)
CallCluster(call) ==
    IF call = <<>> THEN boot_sector.root_dir_cluster
    ELSE DirEntries(CallCluster(SubSeq(call, 1, Len(call) - 1)))[call[Len(call)]]
             .first_cluster

RECURSIVE CallPrefix(_)
CallPrefix(call) ==
    IF call = <<>> THEN <<47>>
    ELSE LET up == SubSeq(call, 1, Len(call) - 1)
             e == DirEntries(CallCluster(up))[call[Len(call)]]
         IN  RStripSlash(entry_path(CallPrefix(up), e)) \o <<47>>

\* The j-th record is the record of its origin: of the directory the call
\* was made on, or of an entry of that directory that is not passed over.
RecordOfOrigin(j) ==
    LET o == wk_origin[j]
        r == wk_out[j]
        entries == DirEntries(CallCluster(o.call))
    IN  IF o.entry = 0
        THEN /\ r.is_directory
             /\ r.first_cluster = CallCluster(o.call)
             /\ r.path = (IF RStripSlash(CallPrefix(o.call)) # <<>>
                          THEN RStripSlash(CallPrefix(o.call)) ELSE <<47>>)
        ELSE /\ o.entry \in 1..Len(entries)
             /\ ~is_skipped(entries[o.entry])
             /\ r.first_cluster = entries[o.entry].first_cluster
             /\ r.size_bytes = entries[o.entry].file_size
             /\ r.is_directory = entries[o.entry].is_directory
             /\ r.path = entry_path(CallPrefix(o.call), entries[o.entry])

RecordsOfOrigins ==
    /\ Len(wk_origin) = Len(wk_out)
    /\ wk_pc \in {"returned", "reported"} =>
           \A j \in 1..Len(wk_out) : RecordOfOrigin(j)

IsPrefix(a, b) == Len(a) <= Len(b) /\ SubSeq(b, 1, Len(a)) = a

\* The root's record is the first.
RootFirst == wk_origin # <<>> => wk_origin[1] = Origin(<<>>, 0)

\* The record of a directory precedes every record appended by the call made
\* on it and by the calls below that call.
ParentsFirst ==
    \A j \in 1..Len(wk_origin) : \A n \in 0..Len(wk_origin[j].call) :
        LET d == SubSeq(wk_origin[j].call, 1, n)
        IN  \/ wk_origin[j] = Origin(d, 0)
            \/ \E i \in 1..(j - 1) : wk_origin[i] = Origin(d, 0)

\* The records of one call are in the order of its entries, which is the
\* order of the slots (parse_directory_entries appends in slot order).
SlotOrder ==
    \A i, j \in 1..Len(wk_origin) :
        (i < j /\ wk_origin[i].call = wk_origin[j].call) =>
            wk_origin[i].entry < wk_origin[j].entry

\* The j-th record was appended below the entry of the i-th record: by the
\* call made on that entry, or by a call below it.
Below(j, i) ==
    /\ wk_origin[i].entry > 0
    /\ IsPrefix(Append(wk_origin[i].call, wk_origin[i].entry), wk_origin[j].call)

\* Every record below an entry lies after the record of the entry and before
\* the records of the later entries of the same directory.
SubtreeBeforeSibling ==
    \A i \in 1..Len(wk_origin) :
        /\ \A j \in 1..Len(wk_origin) : Below(j, i) => i < j
        /\ \A k \in 1..Len(wk_origin) :
               (/\ wk_origin[k].call = wk_origin[i].call
                /\ wk_origin[k].entry > wk_origin[i].entry) =>
                   \A j \in 1..Len(wk_origin) : Below(j, i) => j < k

\* The position in records of the k-th record that keep holds of.
KthIndex(records, keep(_), k) ==
    CHOOSE i \in 1..Len(records) :
        /\ keep(records[i])
        /\ Cardinality({j \in 1..i : keep(records[j])}) = k

\* sub is the records that keep holds of, each once, in their order.
OrderedSelection(sub, records, keep(_)) ==
    /\ Len(sub) = Cardinality({i \in 1..Len(records) : keep(records[i])})
    /\ \A k \in 1..Len(sub) : sub[k] = asdict(records[KthIndex(records, keep, k)])

ReportOrder ==
    wk_pc = "reported" =>
        /\ OrderedSelection(an_report.files, wk_out, IsFile)
        /\ OrderedSelection(an_report.dirs, wk_out, IsDir)

\* C11: walker ordering. In the records walk returns each record is that of
\* the directory or entry it was appended for; in them, and in every prefix
\* of them that _walk_dir has appended so far, the root's record is first,
\* the record of a directory precedes the records of everything inside it,
\* the records of the entries of one directory are in slot order, and the
\* subtree of a subdirectory precedes the next sibling entry; the files and
\* dirs of the report of analyze are the non-directory and the directory
\* records in that same order.
C11_WalkerOrdering ==
    /\ RecordsOfOrigins
    /\ RootFirst
    /\ ParentsFirst
    /\ SlotOrder
    /\ SubtreeBeforeSibling
    /\ ReportOrder

\* analyze has reported a tree in which a subdirectory of the root holds an
\* entry and is followed by a sibling, with two files or more.
C11_Witness ==
    /\ wk_pc = "reported"
    /\ Len(an_report.files) >= 2
    /\ Len(an_report.dirs) >= 2
    /\ \E i, j, k \in 1..Len(wk_origin) :
           /\ wk_origin[i].call = <<>> /\ wk_origin[i].entry > 0
           /\ wk_origin[j] = Origin(<<wk_origin[i].entry>>, 1)
           /\ wk_origin[k].call = <<>>
           /\ wk_origin[k].entry > wk_origin[i].entry

(***************************************************************************)
(* Specifications: one per function, the other functions idle.             *)
(***************************************************************************)
InitExtents ==
    /\ TeInit /\ FeIdle /\ boot_sector = None /\ PbIdle /\ FatIdle /\ GcIdle
    /\ DpIdle /\ WkIdle /\ BmIdle /\ StIdle

SpecExtents ==
    /\ InitExtents
    /\ [][ToExtents]_vars

InitFree ==
    /\ FeInit /\ TeIdle /\ boot_sector = None /\ PbIdle /\ FatIdle /\ GcIdle
    /\ DpIdle /\ WkIdle /\ BmIdle /\ StIdle

SpecFree ==
    /\ InitFree
    /\ [][FreeExtents]_vars

NextBoot ==
    \/ Open
    \/ Close
    \/ ParseBootSectorNotOpen
    \/ ParseBootSectorTruncated
    \/ ParseBootSectorBadSignature
    \/ ParseBootSector

InitBoot ==
    /\ PbInit /\ TeIdle /\ FeIdle /\ FatIdle /\ GcIdle /\ DpIdle /\ WkIdle
    /\ BmIdle /\ StIdle

SpecBoot ==
    /\ InitBoot
    /\ [][NextBoot]_vars

NextChain ==
    \/ GetChainCached
    \/ GetChainFollow
    \/ GetClusterChainNext
    \/ GetClusterChainEnd

\* The follower is straight-line code: once called it runs on to its return.
InitChain ==
    /\ GcInit /\ TeIdle /\ FeIdle /\ PbIdle /\ DpIdle /\ WkIdle /\ BmIdle
    /\ StIdle

SpecChain ==
    /\ InitChain
    /\ [][NextChain]_vars
    /\ WF_vars(GetClusterChainNext \/ GetClusterChainEnd)

InitDir ==
    /\ DpInit /\ TeIdle /\ FeIdle /\ boot_sector = None /\ PbIdle /\ FatIdle
    /\ GcIdle /\ WkIdle /\ BmIdle /\ StIdle

SpecDir ==
    /\ InitDir
    /\ [][ParseDirectoryEntries]_vars

NextWalk ==
    \/ Walk
    \/ WalkEntrySkipped
    \/ WalkEntryRecorded
    \/ WalkEntryDescended
    \/ WalkRecursionError
    \/ WalkDirReturn
    \/ Analyze

InitWalk ==
    /\ WkInit /\ TeIdle /\ FeIdle /\ PbIdle /\ GcIdle /\ DpIdle /\ BmIdle
    /\ StIdle

SpecWalk ==
    /\ InitWalk
    /\ [][NextWalk]_vars

NextBitmap == BuildAllocationBitmap \/ BuildAllocationBitmapRaises

InitBitmap ==
    /\ BmInit /\ TeIdle /\ FeIdle /\ PbIdle /\ FatIdle /\ GcIdle /\ DpIdle
    /\ WkIdle /\ StIdle

SpecBitmap ==
    /\ InitBitmap
    /\ [][NextBitmap]_vars

NextStats == Stats \/ StatsRaises

InitStats ==
    /\ StInit /\ TeIdle /\ FeIdle /\ PbIdle /\ FatIdle /\ GcIdle /\ DpIdle
    /\ WkIdle /\ BmIdle

SpecStats ==
    /\ InitStats
    /\ [][NextStats]_vars

====
